---------------------------- MODULE Spec2Model ----------------------------
(***************************************************************************)
(* swbd_mask: builds the compressed land mask (.clm) file from the SWBD    *)
(* shape files.  The model follows main() of main.cpp step by step (the    *)
(* start-up checks, the header and the directory, one pass of the cell     *)
(* loop per one-degree cell) and maskThread::mask / maskThread::run of     *)
(* maskThread.cpp for the compute threads.                                 *)
(*                                                                         *)
(* The output file is modelled by its length, its position, the directory  *)
(* records of the cells the model walks, and the list of block writes with *)
(* the offset each one really landed at.                                   *)
(***************************************************************************)
EXTENDS Integers, Sequences, FiniteSets, TLC

(***************************************************************************)
(* Bounds of the model.                                                    *)
(***************************************************************************)
\* Longitudes walked in every latitude band (the program walks 360); the
\* directory keeps its real layout of 360 records per band.
LonCount == 2
\* The same, for the runs that fill the file past 2^31 bytes.
LonWide == 7
\* Cells of those runs already processed where the model takes them up.
PriorCells == 1203
\* Cells after those that still have a shape file; the rest of the walk has
\* none.
LastShapes == 5
\* I/O calls (fseek, fwrite of the cell loop) that are counted, so that the
\* environment can make the k-th one fail.
MaxIOOps == 4
\* Rings of a cell in the classifier runs.
MaxRings == 5
\* Rings a loaded shape file may hold in the cell loop.
MaxPoly == 1
\* Shapes of a shape file, vertices and declared parts of a shape, in the
\* runs of the ring loader.
MaxShapes == 2
MaxVertices == 3
MaxParts == 2

(***************************************************************************)
(* Program constants.                                                      *)
(***************************************************************************)
SWBD_MASK_HEADER_SIZE == 16384
RecordSize == 7
LatFirst == -90
LatEnd == 90
LonFirst == -180
LonBand == 360
BandSouth == -57
BandNorth == 59
DefaultThreads == 4
MaxThreads == 16

NVTrue == 1
NVFalse == 0

Pow2(k) == 2 ^ k

NumCells == (LatEnd - LatFirst) * LonBand
DirEnd == SWBD_MASK_HEADER_SIZE + NumCells * RecordSize

Max(a, b) == IF a > b THEN a ELSE b

(***************************************************************************)
(* File offsets are C longs (64 bits), which the model checker's integers  *)
(* (32 bits) cannot hold: a long is kept as two limbs, hi * 2^16 + lo.     *)
(***************************************************************************)
LBase == Pow2(16)
\* The long of an int x >= 0.
Long(x) == [hi |-> x \div LBase, lo |-> x % LBase]
\* a + x for an int x >= 0.
LAdd(a, x) == [hi |-> a.hi + (a.lo + x) \div LBase, lo |-> (a.lo + x) % LBase]
LLess(a, b) == a.hi < b.hi \/ (a.hi = b.hi /\ a.lo < b.lo)
LLeq(a, b) == a = b \/ LLess(a, b)
LMax(a, b) == IF LLess(a, b) THEN b ELSE a
\* The int of a long below 2^31.
LInt(a) == a.hi * LBase + a.lo

VARIABLES
    env,            \* what the run is given: the arguments, the environment variable,
                    \* the reference mask, the shape files found, the calls that fail
    pc,             \* position of main()
    exit_status,    \* 0 while running or after return (0); -1 after exit (-1)
    resolution, num_threads,
    ofp,            \* "none" | "open" | "closed": the output stream
    fileLen, fpos,  \* length of the output file and position of the stream (longs)
    dir,            \* directory records, by map index, of the walked cells
    blocks,         \* the block written for a cell: cell -> [off, len], off where it landed
    strays,         \* 7-byte record writes that did not land on a slot
    mapbuf,         \* the 7-byte record buffer: [code (32 bits, as an int32), size (24 bits)]
    lat, lon,
    num_poly, ti,   \* ring count of the cell; loop index of the thread loops
    in_size, out_size, n, block_address,
    ioCount, ioFailed,
    mask_thread,    \* the maskThread objects: l_ members, thread state, run()'s copy
    complete,       \* the cell's completion array
    setBy,          \* the threads that set each entry of complete, in order (history)
    block_writes,   \* tiles written into the cell's byte block: [by, tile]
    hits, k, inside_count, flag,  \* one sample of maskThread::run's inner loop
    shapes,         \* the objects SHPReadObject returns for the cell's shape file
    si, vj, numParts,   \* the loops of lines 367 and 376: i, j and numParts
    poly,           \* poly_x / poly_y: the rings, each the vertices stored in it
    wild            \* vertices stored through poly_x[-1]

vars == <<env, pc, exit_status, resolution, num_threads, ofp, fileLen, fpos, dir,
          blocks, strays, mapbuf, lat, lon, num_poly, ti, in_size, out_size, n,
          block_address, ioCount, ioFailed, mask_thread, complete, setBy,
          block_writes, hits, k, inside_count, flag, shapes, si, vj, numParts,
          poly, wild>>

fileVars == <<ofp, fileLen, fpos, dir, blocks, strays>>
cellVars == <<lat, lon>>
zVars == <<in_size, out_size, n, block_address>>
thrVars == <<mask_thread, complete, setBy, block_writes>>
smpVars == <<hits, k, inside_count, flag>>
ringVars == <<shapes, si, vj, numParts, poly, wild>>

(***************************************************************************)
(* Command line: an argument is a sequence of characters.                  *)
(***************************************************************************)
Digits == {"0", "1", "2", "3", "4", "5", "6", "7", "8", "9"}

DigitVal(c) ==
    CASE c = "0" -> 0 [] c = "1" -> 1 [] c = "2" -> 2 [] c = "3" -> 3
      [] c = "4" -> 4 [] c = "5" -> 5 [] c = "6" -> 6 [] c = "7" -> 7
      [] c = "8" -> 8 [] c = "9" -> 9

\* Number of leading digits of s.
RECURSIVE DigitPrefix(_)
DigitPrefix(s) ==
    IF s = <<>> \/ Head(s) \notin Digits THEN 0 ELSE 1 + DigitPrefix(Tail(s))

RECURSIVE DigitsValue(_, _)
DigitsValue(s, acc) ==
    IF s = <<>> THEN acc ELSE DigitsValue(Tail(s), acc * 10 + DigitVal(Head(s)))

\* sscanf (s, "%d", &v): v keeps its old value when s does not start with a
\* number; what follows the number is ignored.
sscanf_d(s, old) ==
    IF DigitPrefix(s) = 0 THEN old
    ELSE DigitsValue(SubSeq(s, 1, DigitPrefix(s)), 0)

ValidResolution(r) == r \in {1, 3, 10, 30, 60}
ValidThreads(t) == t \in {4, 16}

\* num_threads after line 177: the second argument is read only when argc == 3.
ThreadsArg(args) ==
    IF Len(args) + 1 = 3 THEN sscanf_d(args[2], DefaultThreads) ELSE DefaultThreads

\* Lines 150-180: TRUE when main() goes on to open the output file.
StartupPasses(e) ==
    /\ Len(e.argv) + 1 >= 2
    /\ e.abe_data
    /\ e.srtm_ok
    /\ ValidResolution(sscanf_d(e.argv[1], 0))
    /\ ValidThreads(ThreadsArg(e.argv))

(***************************************************************************)
(* Directory records and the file.                                         *)
(***************************************************************************)
MapIndex(la, lo) == (la - LatFirst) * LonBand + (lo - LonFirst)
map_address(la, lo) == SWBD_MASK_HEADER_SIZE + MapIndex(la, lo) * RecordSize
SlotAddr(c) == SWBD_MASK_HEADER_SIZE + c * RecordSize

WalkedCells(lc) ==
    {MapIndex(la, lo) : la \in LatFirst .. (LatEnd - 1), lo \in LonFirst .. (LonFirst + lc - 1)}

ZeroRecord == [code |-> 0, size |-> 0]
\* A slot overwritten by bytes that are no record (a part of a block).
Clobbered == [code |-> 0, size |-> -1]

memset0(buf) == ZeroRecord
\* bit_pack (mapbuf, 0, 32, v) and bit_pack (mapbuf, 32, 24, v).
\* The 32 bits of an int32 are kept as the int32; Unsigned32 is their value
\* as the offset a reader takes them for.
bit_pack_code(buf, v) == [buf EXCEPT !.code = v]
bit_pack_size(buf, v) == [buf EXCEPT !.size = v % Pow2(24)]
Unsigned32(v) == [hi |-> (v \div LBase) % LBase, lo |-> v % LBase]

\* (int32_t) of a long: the low 32 bits, as a signed number.
ToInt32(x) ==
    IF x.hi % LBase < Pow2(15) THEN (x.hi % LBase) * LBase + x.lo
    ELSE ((x.hi % LBase) - LBase) * LBase + x.lo

\* A band one degree too wide to the north; the sentinel property must not
\* survive it.
OutsideBand_Shifted(la) == la < BandSouth \/ la > BandNorth + 1

OutsideBand(la) == la < BandSouth \/ la > BandNorth

\* read_srtm_mask_min_res (lat + 0.5, lon + 0.5, 3) of the reference mask the
\* environment holds: 0 is water.
read_srtm_mask(e, la, lo) ==
    CASE e.srtm = "land" -> 1
      [] e.srtm = "water" -> 0
      [] OTHER -> (la + lo) % 2

\* Lines 279-293: a shape file of the cell is found.
file_check(e, c) == e.shpAll \/ c \in e.shp

\* Lines 302-335: the record of a cell with no shape file.
SentinelRecord(buf, e, la, lo) ==
    IF OutsideBand(la) THEN memset0(buf)
    ELSE IF read_srtm_mask(e, la, lo) = 0 THEN bit_pack_code(memset0(buf), 2)
    ELSE bit_pack_code(memset0(buf), 1)

\* The byte ranges [a, a + alen) and [b, b + blen) of longs a and b meet.
Overlaps(a, alen, b, blen) == LLess(a, LAdd(b, blen)) /\ LLess(b, LAdd(a, alen))

\* The directory after len bytes were written at the long pos; rec is the
\* record when the bytes are one.
DirAfterWrite(d, pos, len, isRec, rec) ==
    IF LLeq(Long(DirEnd), pos) \/ LLeq(LAdd(pos, len), Long(SWBD_MASK_HEADER_SIZE)) THEN d
    ELSE IF isRec /\ (LInt(pos) - SWBD_MASK_HEADER_SIZE) % RecordSize = 0
         THEN LET c == (LInt(pos) - SWBD_MASK_HEADER_SIZE) \div RecordSize
              IN IF c \in DOMAIN d THEN [d EXCEPT ![c] = rec] ELSE d
    ELSE [c \in DOMAIN d |->
            IF Overlaps(Long(SlotAddr(c)), RecordSize, pos, len) THEN Clobbered ELSE d[c]]

\* The k-th counted I/O call from here fails when the environment says so.
Fails(j) == ioCount + j = env.faultAt
CountIO(j) == IF ioCount + j > MaxIOOps THEN MaxIOOps + 1 ELSE ioCount + j

(***************************************************************************)
(* maskThread                                                              *)
(***************************************************************************)
Threads == 0 .. (MaxThreads - 1)
NoParams == [bl |-> -1, r |-> 0, np |-> 0, slt |-> 0, sln |-> 0, c |-> -1, nt |-> 0, p |-> -1]
IdleThread == [l |-> NoParams, st |-> "idle", w |-> NoParams]

isRunning(t) == t.st # "idle"

\* NINT (sqrt ((double) nt))
NintSqrt(nt) == CHOOSE b \in 0 .. nt : (2 * b - 1) * (2 * b - 1) <= 4 * nt /\ 4 * nt < (2 * b + 1) * (2 * b + 1)

\* Lines 96-102 of maskThread.cpp.
point_count(r) == 3600 \div r
block_count(nt) == NintSqrt(nt)
pass_point_count(pcount, bcount) == pcount \div bcount
start_x(pass, bcount, ppc) == (pass % bcount) * ppc

\* Row offset taken from the column index; the tile property must not
\* survive it.
start_y_Mod(pass, bcount, ppc) == (pass % bcount) * ppc

start_y(pass, bcount, ppc) == (pass \div bcount) * ppc

\* Lines 129-176: the tile run() writes, rows y0 .. y1-1 and columns
\* x0 .. x1-1 of the block (byte i * point_count + j for row i, column j).
Tile(r, nt, pass) ==
    LET bcount == block_count(nt)
        ppc == pass_point_count(point_count(r), bcount)
        sx == start_x(pass, bcount, ppc)
        sy == start_y(pass, bcount, ppc)
    IN [x0 |-> sx, x1 |-> sx + ppc, y0 |-> sy, y1 |-> sy + ppc]


(***************************************************************************)
(* main()                                                                  *)
(***************************************************************************)
LonEnd == LonFirst + env.lonCount
CellIndex == MapIndex(lat, lon)

\* The loop headers of lines 237 and 251: the cell after (lat, lon).
NextLon == IF lon + 1 < LonEnd THEN lon + 1 ELSE LonFirst
\* A latitude loop that does not advance; the termination property must not
\* survive it.
NextLat_Stuck == lat

NextLat == IF lon + 1 < LonEnd THEN lat ELSE lat + 1
NextCell ==
    /\ lon' = NextLon
    /\ lat' = NextLat
    /\ pc' = IF NextLat < LatEnd THEN "cell" ELSE "close"

Exit ==
    /\ pc' = "exit"
    /\ exit_status' = -1

\* Lines 150-180: argument and environment checks.
Startup ==
    /\ pc = "start"
    /\ IF StartupPasses(env)
       THEN /\ resolution' = sscanf_d(env.argv[1], 0)
            /\ num_threads' = ThreadsArg(env.argv)
            /\ pc' = "open"
            /\ UNCHANGED exit_status
       ELSE /\ Exit
            /\ UNCHANGED <<resolution, num_threads>>
    /\ UNCHANGED <<env, fileVars, mapbuf, cellVars, num_poly, ti, zVars, ioCount,
                   ioFailed, thrVars, smpVars, ringVars>>

\* Lines 185-191: fopen (ofile, "wb+") creates or truncates the output file.
OpenOutput ==
    /\ pc = "open"
    /\ \E ok \in (IF "fopen" \in env.faults THEN BOOLEAN ELSE {TRUE}) :
         IF ok
         THEN /\ ofp' = "open"
              /\ fileLen' = Long(0)
              /\ fpos' = Long(0)
              /\ pc' = "header"
              /\ UNCHANGED exit_status
         ELSE /\ Exit
              /\ UNCHANGED <<ofp, fileLen, fpos>>
    /\ UNCHANGED <<env, resolution, num_threads, dir, blocks, strays, mapbuf, cellVars,
                   num_poly, ti, zVars, ioCount, ioFailed, thrVars, smpVars, ringVars>>

\* Lines 196-211: the ASCII header, padded with zeros to its size.
WriteHeader ==
    /\ pc = "header"
    /\ fileLen' = Long(SWBD_MASK_HEADER_SIZE)
    /\ fpos' = Long(SWBD_MASK_HEADER_SIZE)
    /\ pc' = "dirinit"
    /\ UNCHANGED <<env, exit_status, resolution, num_threads, ofp, dir, blocks, strays,
                   mapbuf, cellVars, num_poly, ti, zVars, ioCount, ioFailed, thrVars,
                   smpVars, ringVars>>

\* Lines 216-225: every record of the directory is written as zeros.
InitDirectory ==
    /\ pc = "dirinit"
    /\ mapbuf' = memset0(mapbuf)
    /\ dir' = [c \in WalkedCells(env.lonCount) |-> memset0(mapbuf)]
    /\ fileLen' = LAdd(fpos, NumCells * RecordSize)
    /\ fpos' = LAdd(fpos, NumCells * RecordSize)
    /\ lat' = LatFirst
    /\ lon' = LonFirst
    /\ pc' = "cell"
    /\ UNCHANGED <<env, exit_status, resolution, num_threads, ofp, blocks, strays,
                   num_poly, ti, zVars, ioCount, ioFailed, thrVars, smpVars, ringVars>>

\* Lines 254-337: a cell for which no shape file is found.
CellNoFile ==
    /\ pc = "cell"
    /\ ~file_check(env, CellIndex)
    /\ LET rec == SentinelRecord(mapbuf, env, lat, lon)
           seekFails == Fails(1)
           writeFails == Fails(2)
           pos == IF seekFails THEN fpos ELSE Long(map_address(lat, lon))
       IN /\ mapbuf' = rec
          /\ dir' = IF writeFails THEN dir ELSE DirAfterWrite(dir, pos, RecordSize, TRUE, rec)
          /\ strays' = IF ~writeFails /\ LLeq(Long(DirEnd), pos)
                       THEN strays \cup {[cell |-> CellIndex, off |-> pos]} ELSE strays
          /\ fileLen' = IF writeFails THEN fileLen ELSE LMax(fileLen, LAdd(pos, RecordSize))
          /\ fpos' = IF writeFails THEN pos ELSE LAdd(pos, RecordSize)
          /\ ioFailed' = (ioFailed \/ seekFails \/ writeFails)
    /\ ioCount' = CountIO(2)
    /\ num_poly' = -1
    /\ NextCell
    /\ UNCHANGED <<env, exit_status, resolution, num_threads, ofp, blocks, ti, zVars,
                   thrVars, smpVars, ringVars>>

\* Lines 342-512: the shape file of the cell is opened and read, the byte
\* block and the completion array are allocated.
OpenShape ==
    /\ pc = "cell"
    /\ file_check(env, CellIndex)
    /\ \E ok \in (IF "shpopen" \in env.faults THEN BOOLEAN ELSE {TRUE}) :
         IF ok
         THEN /\ \E np \in env.polys : num_poly' = np
              /\ block_writes' = {}
              /\ complete' = [i \in 0 .. (num_threads - 1) |-> 0]
              /\ setBy' = [i \in 0 .. (num_threads - 1) |-> <<>>]
              /\ ti' = 0
              /\ pc' = "mask"
              /\ UNCHANGED exit_status
         ELSE /\ Exit
              /\ UNCHANGED <<num_poly, block_writes, complete, setBy, ti>>
    /\ UNCHANGED <<env, resolution, num_threads, fileVars, mapbuf, cellVars, zVars,
                   ioCount, ioFailed, mask_thread, smpVars, ringVars>>

\* A mask() that assigns the parameters and leaves the thread as it is; the
\* handoff property must not survive it.
mask_NoStart(t, bl, r, np, slt, sln, c, nt, p) ==
    [l |-> [bl |-> bl, r |-> r, np |-> np, slt |-> slt, sln |-> sln, c |-> c, nt |-> nt, p |-> p],
     st |-> t.st,
     w |-> t.w]

\* maskThread::mask, lines 53-71 of maskThread.cpp, called by the loop of
\* lines 514-517 of main.cpp.
mask(t, bl, r, np, slt, sln, c, nt, p) ==
    [l |-> [bl |-> bl, r |-> r, np |-> np, slt |-> slt, sln |-> sln, c |-> c, nt |-> nt, p |-> p],
     st |-> IF isRunning(t) THEN t.st ELSE "starting",
     w |-> t.w]

MaskCall ==
    /\ pc = "mask"
    /\ mask_thread' = [mask_thread EXCEPT ![ti] =
           mask(@, CellIndex, resolution, num_poly, lat, lon, CellIndex, num_threads, ti)]
    /\ ti' = IF ti + 1 < num_threads THEN ti + 1 ELSE 0
    /\ pc' = IF ti + 1 < num_threads THEN "mask" ELSE "wait"
    /\ UNCHANGED <<env, exit_status, resolution, num_threads, fileVars, mapbuf, cellVars,
                   num_poly, zVars, ioCount, ioFailed, complete, setBy, block_writes,
                   smpVars, ringVars>>

\* A wait that returns without the thread having finished; the barrier
\* property must not survive it.
WaitReturns_Always(t) == TRUE

\* QThread::wait of lines 522-525: returns once the thread is not running.
WaitReturns(t) == ~isRunning(t)

WaitThread ==
    /\ pc = "wait"
    /\ WaitReturns(mask_thread[ti])
    /\ ti' = IF ti + 1 < num_threads THEN ti + 1 ELSE 0
    /\ pc' = IF ti + 1 < num_threads THEN "wait" ELSE "pack"
    /\ UNCHANGED <<env, exit_status, resolution, num_threads, fileVars, mapbuf, cellVars,
                   num_poly, zVars, ioCount, ioFailed, thrVars, smpVars, ringVars>>

\* Lines 528-529: the size of the bit block.
BitBlockSize(r) ==
    (point_count(r) * point_count(r)) \div 8
      + (IF (point_count(r) * point_count(r)) % 8 # 0 THEN 1 ELSE 0)

\* Lines 528-554: the byte block is packed into the bit block.
PackBits ==
    /\ pc = "pack"
    /\ in_size' = BitBlockSize(resolution)
    /\ pc' = "compress"
    /\ UNCHANGED <<env, exit_status, resolution, num_threads, fileVars, mapbuf, cellVars,
                   num_poly, ti, out_size, n, block_address, ioCount, ioFailed, thrVars,
                   smpVars, ringVars>>

\* Line 560: the size of the output buffer handed to compress2.
OutBufSize(sz) == sz + sz \div 10 + 100

\* compress2: status 0 and a length within the output buffer, or an error
\* status (Z_BUF_ERROR is -5) with the length left at the buffer size.
ZResults(e, sz) ==
    {[n |-> 0, len |-> l] :
        l \in IF e.zlens = "max" THEN {OutBufSize(sz)}
              ELSE {Max(1, OutBufSize(sz) \div 100), OutBufSize(sz)}}
    \cup (IF "compress" \in e.faults THEN {[n |-> -5, len |-> OutBufSize(sz)]} ELSE {})

\* A status test that never fires; the abort property must not survive it.
CompressFailed_Never(status) == FALSE

\* Lines 571-575: what main() does with compress2's status.
CompressFailed(status) == status # 0

\* Lines 559-575.
Compress ==
    /\ pc = "compress"
    /\ \E z \in ZResults(env, in_size) :
         /\ n' = z.n
         /\ out_size' = z.len
         /\ IF CompressFailed(z.n)
            THEN Exit
            ELSE /\ pc' = "writerec"
                 /\ UNCHANGED exit_status
    /\ UNCHANGED <<env, resolution, num_threads, fileVars, mapbuf, cellVars, num_poly,
                   ti, in_size, block_address, ioCount, ioFailed, thrVars, smpVars,
                   ringVars>>

\* Lines 580-585: the end of the file is taken as the block address, and the
\* record is written to the cell's slot.
WriteRecord ==
    /\ pc = "writerec"
    /\ LET endFails == Fails(1)
           seekFails == Fails(2)
           writeFails == Fails(3)
           end == IF endFails THEN fpos ELSE fileLen
           addr == ToInt32(end)
           rec == bit_pack_size(bit_pack_code(mapbuf, addr), out_size)
           pos == IF seekFails THEN end ELSE Long(map_address(lat, lon))
       IN /\ block_address' = addr
          /\ mapbuf' = rec
          /\ dir' = IF writeFails THEN dir ELSE DirAfterWrite(dir, pos, RecordSize, TRUE, rec)
          /\ strays' = IF ~writeFails /\ LLeq(Long(DirEnd), pos)
                       THEN strays \cup {[cell |-> CellIndex, off |-> pos]} ELSE strays
          /\ fileLen' = IF writeFails THEN fileLen ELSE LMax(fileLen, LAdd(pos, RecordSize))
          /\ fpos' = IF writeFails THEN pos ELSE LAdd(pos, RecordSize)
          /\ ioFailed' = (ioFailed \/ endFails \/ seekFails \/ writeFails)
    /\ ioCount' = CountIO(3)
    /\ pc' = "writeblock"
    /\ UNCHANGED <<env, exit_status, resolution, num_threads, ofp, blocks, cellVars,
                   num_poly, ti, in_size, out_size, n, thrVars, smpVars, ringVars>>

\* fseek (ofp, offset, SEEK_SET) fails on a negative offset.
SeekSetFails(offset) == offset < 0

\* Lines 591-655: the block is written at block_address, the cell's memory is
\* freed.
WriteBlock ==
    /\ pc = "writeblock"
    /\ LET seekFails == Fails(1) \/ SeekSetFails(block_address)
           writeFails == Fails(2)
           pos == IF seekFails THEN fpos ELSE Long(block_address)
       IN /\ blocks' = IF writeFails THEN blocks
                       ELSE [c \in DOMAIN blocks \cup {CellIndex} |->
                               IF c = CellIndex THEN [off |-> pos, len |-> out_size]
                               ELSE blocks[c]]
          /\ dir' = IF writeFails THEN dir
                    ELSE DirAfterWrite(dir, pos, out_size, FALSE, ZeroRecord)
          /\ fileLen' = IF writeFails THEN fileLen ELSE LMax(fileLen, LAdd(pos, out_size))
          /\ fpos' = IF writeFails THEN pos ELSE LAdd(pos, out_size)
          /\ ioFailed' = (ioFailed \/ seekFails \/ writeFails)
    /\ ioCount' = CountIO(2)
    /\ NextCell
    /\ UNCHANGED <<env, exit_status, resolution, num_threads, ofp, strays, mapbuf,
                   num_poly, ti, zVars, thrVars, smpVars, ringVars>>

\* Lines 662-668.
Finish ==
    /\ pc = "close"
    /\ ofp' = "closed"
    /\ pc' = "done"
    /\ UNCHANGED <<env, exit_status, resolution, num_threads, fileLen, fpos, dir, blocks,
                   strays, mapbuf, cellVars, num_poly, ti, zVars, ioCount, ioFailed,
                   thrVars, smpVars, ringVars>>

(***************************************************************************)
(* maskThread::run                                                         *)
(***************************************************************************)
\* Lines 77-91: the parameters are copied under the mutex mask() holds while
\* it assigns them.
RunCopy(i) ==
    /\ mask_thread[i].st = "starting"
    /\ mask_thread' = [mask_thread EXCEPT ![i] =
           [l |-> mask_thread[i].l, st |-> "computing", w |-> mask_thread[i].l]]
    /\ UNCHANGED <<env, pc, exit_status, resolution, num_threads, fileVars, mapbuf,
                   cellVars, num_poly, ti, zVars, ioCount, ioFailed, complete, setBy,
                   block_writes, smpVars, ringVars>>

\* Lines 96-191: the tile is filled, complete[pass] is set, the thread ends.
RunTile(i) ==
    /\ mask_thread[i].st = "computing"
    /\ LET w == mask_thread[i].w
       IN /\ block_writes' = block_writes \cup {[by |-> i, tile |-> Tile(w.r, w.nt, w.p)]}
          /\ complete' = [complete EXCEPT ![w.p] = NVTrue]
          /\ setBy' = [setBy EXCEPT ![w.p] = Append(@, i)]
    /\ mask_thread' = [mask_thread EXCEPT ![i].st = "idle"]
    /\ UNCHANGED <<env, pc, exit_status, resolution, num_threads, fileVars, mapbuf,
                   cellVars, num_poly, ti, zVars, ioCount, ioFailed, smpVars, ringVars>>

Workers == \E i \in Threads : RunCopy(i) \/ RunTile(i)

(***************************************************************************)
(* Environments and specifications                                         *)
(***************************************************************************)
InitProgram ==
    /\ pc = "start"
    /\ exit_status = 0
    /\ ofp = "none"
    /\ fileLen = Long(0)
    /\ fpos = Long(0)
    /\ dir = <<>>
    /\ blocks = <<>>
    /\ strays = {}
    /\ mapbuf = ZeroRecord
    /\ lat = LatFirst
    /\ lon = LonFirst
    /\ num_poly = -1
    /\ ti = 0
    /\ in_size = 0
    /\ out_size = 0
    /\ n = 0
    /\ block_address = 0
    /\ ioCount = 0
    /\ ioFailed = FALSE
    /\ mask_thread = [i \in Threads |-> IdleThread]
    /\ complete = <<>>
    /\ setBy = <<>>
    /\ block_writes = {}
    /\ k = 0
    /\ inside_count = 0
    /\ flag = -1
    /\ shapes = <<>>
    /\ si = 0
    /\ vj = 0
    /\ numParts = 0
    /\ poly = <<>>
    /\ wild = {}

\* main() before line 150: resolution = 0, num_threads = 4.
InitMain ==
    /\ resolution = 0
    /\ num_threads = DefaultThreads
    /\ hits = <<>>

\* The arguments of the runs below, as characters.
ResolutionArgs == {<<"1">>, <<"3">>, <<"1", "0">>, <<"3", "0">>, <<"6", "0">>}
FirstCell == MapIndex(LatFirst, LonFirst)
EquatorCell == MapIndex(0, LonFirst)

\* Runs with valid arguments in which every seek and write succeeds; the
\* output file, a shape file or compress2 may fail.
InitRun ==
    /\ InitProgram
    /\ InitMain
    /\ \E a \in {<<r>> : r \in ResolutionArgs} \cup {<< <<"6", "0">>, <<"4">> >>},
          m \in {"mixed", "water"},
          sh \in {{}, {FirstCell}, {EquatorCell, EquatorCell + 1}} :
         /\ m = "water" => (a = << <<"6", "0">> >> /\ sh = {})
         /\ env = [argv |-> a, abe_data |-> TRUE, srtm_ok |-> TRUE, srtm |-> m,
                   shp |-> sh, shpAll |-> FALSE, faults |-> {"fopen", "shpopen", "compress"},
                   faultAt |-> 0, lonCount |-> LonCount, zlens |-> "any",
                   polys |-> 0 .. MaxPoly]

Next ==
    \/ Startup \/ OpenOutput \/ WriteHeader \/ InitDirectory
    \/ CellNoFile \/ OpenShape \/ MaskCall \/ WaitThread \/ PackBits \/ Compress
    \/ WriteRecord \/ WriteBlock \/ Finish
    \/ Workers

Spec == InitRun /\ [][Next]_vars

\* Runs without a fatal error, in which main() and every started worker
\* thread keep being scheduled: a step of main() that stays possible is
\* taken, and so is a step of the workers.
InitLive ==
    /\ InitProgram
    /\ InitMain
    /\ \E a \in {<< <<"1">> >>, << <<"6", "0">> >>, << <<"6", "0">>, <<"4">> >>},
          sh \in {{}, {FirstCell}, {EquatorCell, EquatorCell + 1}} :
         env = [argv |-> a, abe_data |-> TRUE, srtm_ok |-> TRUE, srtm |-> "mixed",
                shp |-> sh, shpAll |-> FALSE, faults |-> {}, faultAt |-> 0,
                lonCount |-> LonCount, zlens |-> "any", polys |-> 0 .. MaxPoly]

MainStep ==
    \/ Startup \/ OpenOutput \/ WriteHeader \/ InitDirectory
    \/ CellNoFile \/ OpenShape \/ MaskCall \/ WaitThread \/ PackBits \/ Compress
    \/ WriteRecord \/ WriteBlock \/ Finish

SpecLive == InitLive /\ [][Next]_vars /\ WF_vars(MainStep) /\ WF_vars(Workers)

\* Runs over the command lines and environments main() may be started with;
\* no cell has a shape file.
InitArgs ==
    /\ InitProgram
    /\ InitMain
    /\ \E r \in ResolutionArgs \cup {<<"2">>, <<"x">>, <<"1", "x">>},
          t \in {<<"4">>, <<"1", "6">>, <<"8">>, <<"x">>},
          len \in 0 .. 3, abe \in BOOLEAN, ok \in BOOLEAN :
         env = [argv |-> SubSeq(<<r, t, <<"x">> >>, 1, len), abe_data |-> abe,
                srtm_ok |-> ok, srtm |-> "mixed", shp |-> {}, shpAll |-> FALSE,
                faults |-> {"fopen"}, faultAt |-> 0, lonCount |-> LonCount,
                zlens |-> "any", polys |-> 0 .. MaxPoly]

NextArgs ==
    \/ Startup \/ OpenOutput \/ WriteHeader \/ InitDirectory \/ CellNoFile \/ Finish

SpecArgs == InitArgs /\ [][NextArgs]_vars

\* Runs in which one of the first seeks or writes of the cell loop fails.
InitIOFail ==
    /\ InitProgram
    /\ InitMain
    /\ \E f \in 1 .. MaxIOOps, sh \in {{}, {FirstCell}, {FirstCell + 1}} :
         env = [argv |-> << <<"6", "0">> >>, abe_data |-> TRUE, srtm_ok |-> TRUE,
                srtm |-> "mixed", shp |-> sh, shpAll |-> FALSE,
                faults |-> {"fopen", "shpopen"}, faultAt |-> f, lonCount |-> LonCount,
                zlens |-> "max", polys |-> {1}]

SpecIOFail == InitIOFail /\ [][Next]_vars

\* Runs that fill the file: resolution 1, a shape file for each of the first
\* PriorCells + LastShapes cells of the walk, every block as long as
\* compress2's output buffer.
WalkRank(c) == (c \div LonBand) * LonWide + (c % LonBand)

FillEnv ==
    [argv |-> << <<"1">> >>, abe_data |-> TRUE, srtm_ok |-> TRUE, srtm |-> "land",
     shp |-> {c \in WalkedCells(LonWide) : WalkRank(c) < PriorCells + LastShapes},
     shpAll |-> FALSE, faults |-> {}, faultAt |-> 0,
     lonCount |-> LonWide, zlens |-> "max", polys |-> {1}]

InitFill ==
    /\ InitProgram
    /\ InitMain
    /\ env = FillEnv

NextFill ==
    \/ Startup \/ OpenOutput \/ WriteHeader \/ InitDirectory \/ CellNoFile
    \/ OpenShape \/ MaskCall \/ WaitThread \/ PackBits \/ Compress
    \/ WriteRecord \/ WriteBlock \/ Finish
    \/ Workers

SpecFill == InitFill /\ [][NextFill]_vars

\* The same runs, taken up at line 251 when the first PriorCells cells of the
\* walk have been processed: SpecFill reaches this state by PriorCells rounds
\* of OpenShape .. WriteBlock.  Cell number j of the walk has its block at
\* DirEnd + j * MaxBlock; the last of these offsets is below 2^31.
MaxBlock == OutBufSize(BitBlockSize(1))
CellOfRank(j) == MapIndex(LatFirst + (j \div LonWide), LonFirst + (j % LonWide))
PriorBlock(c) == DirEnd + WalkRank(c) * MaxBlock
LastParams(p) ==
    [bl |-> CellOfRank(PriorCells - 1), r |-> 1, np |-> 1,
     slt |-> LatFirst + ((PriorCells - 1) \div LonWide),
     sln |-> LonFirst + ((PriorCells - 1) % LonWide),
     c |-> CellOfRank(PriorCells - 1), nt |-> DefaultThreads, p |-> p]

InitOverflow ==
    /\ env = FillEnv
    /\ pc = "cell"
    /\ exit_status = 0
    /\ resolution = 1
    /\ num_threads = DefaultThreads
    /\ ofp = "open"
    /\ fileLen = Long(DirEnd + PriorCells * MaxBlock)
    /\ fpos = Long(DirEnd + PriorCells * MaxBlock)
    /\ dir = [c \in WalkedCells(LonWide) |->
                IF WalkRank(c) < PriorCells
                THEN [code |-> PriorBlock(c), size |-> MaxBlock]
                ELSE ZeroRecord]
    /\ blocks = [c \in {d \in WalkedCells(LonWide) : WalkRank(d) < PriorCells} |->
                   [off |-> Long(PriorBlock(c)), len |-> MaxBlock]]
    /\ strays = {}
    /\ mapbuf = [code |-> PriorBlock(CellOfRank(PriorCells - 1)), size |-> MaxBlock]
    /\ lat = LatFirst + (PriorCells \div LonWide)
    /\ lon = LonFirst + (PriorCells % LonWide)
    /\ num_poly = 1
    /\ ti = 0
    /\ in_size = BitBlockSize(1)
    /\ out_size = MaxBlock
    /\ n = 0
    /\ block_address = PriorBlock(CellOfRank(PriorCells - 1))
    /\ ioCount = MaxIOOps + 1
    /\ ioFailed = FALSE
    /\ mask_thread = [i \in Threads |->
                        IF i < DefaultThreads
                        THEN [l |-> LastParams(i), st |-> "idle", w |-> LastParams(i)]
                        ELSE IdleThread]
    /\ complete = [i \in 0 .. (DefaultThreads - 1) |-> NVTrue]
    /\ setBy = [i \in 0 .. (DefaultThreads - 1) |-> <<i>>]
    /\ block_writes = {[by |-> i, tile |-> Tile(1, DefaultThreads, i)] :
                          i \in 0 .. (DefaultThreads - 1)}
    /\ hits = <<>>
    /\ k = 0
    /\ inside_count = 0
    /\ flag = -1
    /\ shapes = <<>>
    /\ si = 0
    /\ vj = 0
    /\ numParts = 0
    /\ poly = <<>>
    /\ wild = {}

NextOverflow ==
    \/ CellNoFile \/ OpenShape \/ MaskCall \/ WaitThread \/ PackBits \/ Compress
    \/ WriteRecord \/ WriteBlock \/ Finish
    \/ Workers

SpecOverflow == InitOverflow /\ [][NextOverflow]_vars

(***************************************************************************)
(* The tiles of maskThread::run, for every resolution and thread count,    *)
(* written in any order.                                                   *)
(***************************************************************************)
InitTiles ==
    /\ InitProgram
    /\ env = [argv |-> <<>>]
    /\ hits = <<>>
    /\ \E r \in {1, 3, 10, 30, 60}, nt \in {4, 16} :
         /\ resolution = r
         /\ num_threads = nt

TileWrite(p) ==
    /\ \A b \in block_writes : b.by # p
    /\ block_writes' = block_writes \cup {[by |-> p, tile |-> Tile(resolution, num_threads, p)]}
    /\ UNCHANGED <<env, pc, exit_status, resolution, num_threads, fileVars, mapbuf,
                   cellVars, num_poly, ti, zVars, ioCount, ioFailed, mask_thread,
                   complete, setBy, smpVars, ringVars>>

NextTiles == \E p \in 0 .. (num_threads - 1) : TileWrite(p)

SpecTiles == InitTiles /\ [][NextTiles]_vars

(***************************************************************************)
(* The ring loader, lines 367-478 of main.cpp, taken up at line 367 in the *)
(* first cell of the walk, whose shape file has just been opened: the      *)
(* header and the zeroed directory are in the file, num_poly is -1 (line   *)
(* 272), poly_x, poly_y and poly_count are NULL.                           *)
(***************************************************************************)
\* What SHPReadObject may return: nVertices, nParts and panPartStart[nParts].
ShapeObjects ==
    UNION {[nVertices : {nv}, nParts : {np}, panPartStart : [1 .. np -> 0 .. (MaxVertices - 1)]] :
              nv \in 0 .. MaxVertices, np \in 0 .. MaxParts}

ShapeFiles == UNION {[1 .. len -> ShapeObjects] : len \in 0 .. MaxShapes}

InitRings ==
    /\ env = [argv |-> << <<"6", "0">> >>, abe_data |-> TRUE, srtm_ok |-> TRUE,
              srtm |-> "mixed", shp |-> {FirstCell}, shpAll |-> FALSE, faults |-> {},
              faultAt |-> 0, lonCount |-> LonCount, zlens |-> "any", polys |-> {}]
    /\ pc = "shapes"
    /\ exit_status = 0
    /\ resolution = 60
    /\ num_threads = DefaultThreads
    /\ ofp = "open"
    /\ fileLen = Long(DirEnd)
    /\ fpos = Long(DirEnd)
    /\ dir = [c \in WalkedCells(LonCount) |-> ZeroRecord]
    /\ blocks = <<>>
    /\ strays = {}
    /\ mapbuf = ZeroRecord
    /\ lat = LatFirst
    /\ lon = LonFirst
    /\ num_poly = -1
    /\ ti = 0
    /\ in_size = 0
    /\ out_size = 0
    /\ n = 0
    /\ block_address = 0
    /\ ioCount = 0
    /\ ioFailed = FALSE
    /\ mask_thread = [i \in Threads |-> IdleThread]
    /\ complete = <<>>
    /\ setBy = <<>>
    /\ block_writes = {}
    /\ hits = <<>>
    /\ k = 0
    /\ inside_count = 0
    /\ flag = -1
    /\ shapes \in ShapeFiles
    /\ si = 0
    /\ vj = 0
    /\ numParts = 0
    /\ poly = <<>>
    /\ wild = {}

\* Lines 367-376 and 472: the next shape is read; its vertex loop is entered
\* with j = 0 and numParts = 1 when it has two vertices or more.
ReadShape ==
    /\ pc = "shapes"
    /\ si < Len(shapes)
    /\ IF shapes[si + 1].nVertices >= 2
       THEN /\ pc' = "vertex"
            /\ vj' = 0
            /\ numParts' = 1
            /\ si' = si
       ELSE /\ si' = si + 1
            /\ UNCHANGED <<pc, vj, numParts>>
    /\ UNCHANGED <<env, exit_status, resolution, num_threads, fileVars, mapbuf, cellVars,
                   num_poly, ti, zVars, ioCount, ioFailed, thrVars, smpVars, shapes,
                   poly, wild>>

\* Line 383 and lines 388-392: the two tests that start a segment.
FirstVertexStarts(shape, j) == j = 0 /\ shape.nParts > 0
PartStartsHere(shape, parts, j) ==
    parts < shape.nParts /\ shape.panPartStart[parts + 1] = j

\* What a store through poly_x[-1], with poly_x NULL, can do: the process is
\* killed by the fault, or the store lands somewhere.
WildStoreOutcomes == {"fault", "store"}

\* Lines 376-466: one pass of the vertex loop.
StoreVertex ==
    /\ pc = "vertex"
    /\ LET shape == shapes[si + 1]
           next == PartStartsHere(shape, numParts, vj)
           start_segment == IF FirstVertexStarts(shape, vj) THEN TRUE ELSE next
           np == IF start_segment THEN num_poly + 1 ELSE num_poly
           pl == IF start_segment THEN Append(poly, <<>>) ELSE poly
           more == vj + 1 < shape.nVertices
       IN /\ numParts' = IF next THEN numParts + 1 ELSE numParts
          /\ num_poly' = np
          /\ \E outcome \in (IF np >= 0 THEN {"ring"} ELSE WildStoreOutcomes) :
                /\ poly' = IF outcome = "ring"
                           THEN [pl EXCEPT ![np + 1] = Append(@, <<si, vj>>)] ELSE pl
                /\ wild' = IF outcome = "store" THEN wild \cup {<<si, vj>>} ELSE wild
                /\ pc' = IF outcome = "fault" THEN "exit"
                         ELSE IF more THEN "vertex" ELSE "shapes"
                /\ exit_status' = IF outcome = "fault" THEN 139 ELSE exit_status
                /\ vj' = IF outcome # "fault" /\ more THEN vj + 1 ELSE vj
                /\ si' = IF outcome # "fault" /\ ~more THEN si + 1 ELSE si
    /\ UNCHANGED <<env, resolution, num_threads, fileVars, mapbuf, cellVars, ti, zVars,
                   ioCount, ioFailed, thrVars, smpVars, shapes>>

\* Line 478: num_poly becomes the ring count.
LoadDone ==
    /\ pc = "shapes"
    /\ si = Len(shapes)
    /\ num_poly' = num_poly + 1
    /\ pc' = "loaded"
    /\ UNCHANGED <<env, exit_status, resolution, num_threads, fileVars, mapbuf, cellVars,
                   ti, zVars, ioCount, ioFailed, thrVars, smpVars, ringVars>>

NextRings == ReadShape \/ StoreVertex \/ LoadDone

SpecRings == InitRings /\ [][NextRings]_vars

(***************************************************************************)
(* One sample of maskThread::run, lines 155-175: hits[j] is the result of  *)
(* inside_polygon2 for ring j and the sample's centre.                     *)
(***************************************************************************)
BoolSeqs(len) == [1 .. len -> BOOLEAN]

InitSample ==
    /\ InitProgram
    /\ env = [argv |-> <<>>]
    /\ resolution = 0
    /\ num_threads = DefaultThreads
    /\ \E len \in 0 .. MaxRings : hits \in BoolSeqs(len)

\* Lines 160-163.
TestRing ==
    /\ flag = -1
    /\ k < Len(hits)
    /\ inside_count' = IF hits[k + 1] THEN inside_count + 1 ELSE inside_count
    /\ k' = k + 1
    /\ UNCHANGED <<env, pc, exit_status, resolution, num_threads, fileVars, mapbuf,
                   cellVars, num_poly, ti, zVars, ioCount, ioFailed, thrVars, hits, flag,
                   ringVars>>

\* Any hit at all marks land; the parity property must not survive it.
SampleFlag_AnyHit(count) == IF count > 0 THEN NVFalse ELSE NVTrue

\* Lines 168-175: NVTrue for land, NVFalse for water.
SampleFlag(count) == IF count % 2 # 0 THEN NVFalse ELSE NVTrue

SetFlag ==
    /\ flag = -1
    /\ k = Len(hits)
    /\ flag' = SampleFlag(inside_count)
    /\ UNCHANGED <<env, pc, exit_status, resolution, num_threads, fileVars, mapbuf,
                   cellVars, num_poly, ti, zVars, ioCount, ioFailed, thrVars, hits, k,
                   inside_count, ringVars>>

NextSample == TestRing \/ SetFlag

SpecSample == InitSample /\ [][NextSample]_vars


(***************************************************************************)
(* Properties                                                              *)
(***************************************************************************)
LatOf(c) == (c \div LonBand) + LatFirst
LonOf(c) == (c % LonBand) + LonFirst
IsSentinel(rec) == rec.code \in {0, 1, 2}
\* The offset a record holds, and the end of the byte range it names.
BlockStart(rec) == Unsigned32(rec.code)
BlockEnd(rec) == LAdd(Unsigned32(rec.code), rec.size)
\* The positions of main() at which the directory has just been written.
DirectoryWritten == pc \in {"cell", "writeblock", "close", "done"}

\* C1: after a complete run every directory record holds code 0, 1 or 2, or
\* an offset and a size whose byte range lies inside the output file at or
\* after the end of the directory (469,984), and the byte ranges of two
\* distinct compressed cells do not overlap.
C1_DirectoryAfterRun ==
    pc = "done" =>
        /\ \A c \in DOMAIN dir :
              /\ dir[c] # Clobbered
              /\ \/ IsSentinel(dir[c])
                 \/ /\ LLeq(Long(DirEnd), BlockStart(dir[c]))
                    /\ LLeq(BlockEnd(dir[c]), fileLen)
        /\ \A a \in DOMAIN dir : \A b \in DOMAIN dir :
              (a # b /\ ~IsSentinel(dir[a]) /\ ~IsSentinel(dir[b]))
                  => ~Overlaps(BlockStart(dir[a]), dir[a].size, BlockStart(dir[b]), dir[b].size)

\* C2: a sample is set to water (NVFalse) exactly when the number of rings
\* that contain its centre is odd, and to land (NVTrue) exactly when it is
\* even.
RingsContaining == Cardinality({j \in 1 .. Len(hits) : hits[j]})

C2_ParityRule ==
    flag # -1 =>
        /\ (flag = NVFalse) <=> (RingsContaining % 2 = 1)
        /\ (flag = NVTrue) <=> (RingsContaining % 2 = 0)

\* A sample inside two rings has been classified.
C2_Witness == flag # -1 /\ RingsContaining = 2

\* C3: a cell with no shape file has, once it is processed, the record
\* (0, 0) when lat < -57 or lat > 59, else (1, 0) when the reference mask
\* reports land at its centre and (2, 0) when it reports water.
ReportsLand(c) == read_srtm_mask(env, LatOf(c), LonOf(c)) # 0

C3_SentinelCodes ==
    \A c \in DOMAIN dir :
        (c < CellIndex /\ ~file_check(env, c)) =>
            dir[c] = IF LatOf(c) < -57 \/ LatOf(c) > 59 THEN [code |-> 0, size |-> 0]
                     ELSE IF ReportsLand(c) THEN [code |-> 1, size |-> 0]
                     ELSE [code |-> 2, size |-> 0]

\* A finished run whose directory holds an undefined, a land and a water cell.
C3_Witness ==
    /\ pc = "done"
    /\ \E c \in DOMAIN dir : ~file_check(env, c) /\ LatOf(c) > 59 /\ dir[c].code = 0
    /\ \E c \in DOMAIN dir : ~file_check(env, c) /\ dir[c].code = 1
    /\ \E c \in DOMAIN dir : ~file_check(env, c) /\ dir[c].code = 2

\* C4: whenever the directory has been written, a record with code 0, 1 or 2
\* has size 0, and a record with any other code has as size the length of the
\* block written at that offset (for the cell in hand, of the block that is
\* about to be written there).
C4_SizeField ==
    DirectoryWritten =>
        \A c \in DOMAIN dir :
            IF IsSentinel(dir[c]) THEN dir[c].size = 0
            ELSE \/ /\ c \in DOMAIN blocks
                    /\ blocks[c].off = BlockStart(dir[c])
                    /\ blocks[c].len = dir[c].size
                 \/ /\ pc = "writeblock"
                    /\ c = CellIndex
                    /\ dir[c].size = out_size

\* C5: blocks are appended in processing order: when the record of a cell
\* has been written, the offset it holds lies at or after the end of the
\* block of every compressed cell before it, so no offset is used twice.
C5_AppendOrder ==
    (pc = "writeblock" /\ CellIndex \in DOMAIN dir /\ ~IsSentinel(dir[CellIndex])) =>
        \A a \in DOMAIN dir :
            (a < CellIndex /\ ~IsSentinel(dir[a]))
                => LLeq(BlockEnd(dir[a]), BlockStart(dir[CellIndex]))

\* C6: when compress2 reports a nonzero status, or a length that does not
\* fit the 24 bits of the size field, the process has exited with a nonzero
\* status and neither a record nor a block of the cell was written.
SizeFieldMax == Pow2(24) - 1

C6_CompressAborts ==
    (n # 0 \/ out_size > SizeFieldMax) =>
        /\ pc = "exit"
        /\ exit_status # 0
        /\ dir[CellIndex] = ZeroRecord
        /\ CellIndex \notin DOMAIN blocks

\* compress2 has failed for a cell.
C6_Witness == pc = "exit" /\ n # 0

\* C7: with a resolution argument that is missing or not one of 1, 3, 10,
\* 30, 60, a worker-count argument that is not 4 or 16, or ABE_DATA not set,
\* the process exits with a nonzero status and the output file is never
\* opened.
BadCommandLine ==
    \/ Len(env.argv) < 1
    \/ env.argv[1] \notin ResolutionArgs
    \/ (Len(env.argv) >= 2 /\ env.argv[2] \notin {<<"4">>, <<"1", "6">>})
    \/ ~env.abe_data

C7_BadArgumentsExit ==
    BadCommandLine =>
        /\ ofp = "none"
        /\ pc # "start" => (pc = "exit" /\ exit_status # 0)

\* C8: after a failed seek or write on the output file the process has
\* aborted; it goes on to no later write and no later cell.
C8_IOFailureAborts == ioFailed => pc = "exit"

\* C9: the tiles of two different workers share no byte of the block, every
\* tile lies in the block, and once all workers have written, the tiles hold
\* as many bytes as the block (so every byte is written exactly once).
TileArea(t) == (t.x1 - t.x0) * (t.y1 - t.y0)

RECURSIVE AreaSum(_)
AreaSum(ws) ==
    IF ws = {} THEN 0
    ELSE LET w == CHOOSE x \in ws : TRUE IN TileArea(w.tile) + AreaSum(ws \ {w})

TilesMeet(s, t) == s.x0 < t.x1 /\ t.x0 < s.x1 /\ s.y0 < t.y1 /\ t.y0 < s.y1

C9_TilePartition ==
    /\ \A a \in block_writes : \A b \in block_writes :
          a.by # b.by => ~TilesMeet(a.tile, b.tile)
    /\ \A a \in block_writes :
          /\ 0 <= a.tile.x0 /\ a.tile.x0 < a.tile.x1 /\ a.tile.x1 <= 3600 \div resolution
          /\ 0 <= a.tile.y0 /\ a.tile.y0 < a.tile.y1 /\ a.tile.y1 <= 3600 \div resolution
    /\ Cardinality(block_writes) = num_threads =>
          AreaSum(block_writes) = (3600 \div resolution) * (3600 \div resolution)

\* All 16 workers have written their tiles at resolution 1.
C9_Witness == num_threads = 16 /\ resolution = 1 /\ Cardinality(block_writes) = 16

\* C10: while main() packs, compresses or writes a cell, no worker of the
\* cell is running, and every entry of complete is set, each set once, by
\* the worker of that index.
C10_Barrier ==
    pc \in {"pack", "compress", "writerec", "writeblock"} =>
        \A i \in 0 .. (num_threads - 1) :
            /\ ~isRunning(mask_thread[i])
            /\ complete[i] = NVTrue
            /\ setBy[i] = <<i>>

\* main() has passed the barrier of a cell.
C10_Witness == pc = "pack" /\ \A i \in 0 .. (num_threads - 1) : complete[i] = NVTrue

\* C11: the block of a compressed cell is in the file before its record is
\* in the directory: whenever a record holds a block offset, a block of the
\* record's size has been written at that offset.
C11_BlockBeforeRecord ==
    \A c \in DOMAIN dir :
        (dir[c] # Clobbered /\ ~IsSentinel(dir[c])) =>
            /\ c \in DOMAIN blocks
            /\ blocks[c].off = BlockStart(dir[c])
            /\ blocks[c].len = dir[c].size

\* C12: the maskThread objects serve every compressed cell in turn.  Once
\* mask() has been called for a thread in the cell in hand, its l_ members are
\* the arguments of that call; the thread is about to run, or run() works on a
\* copy of exactly these arguments and has not finished yet, or it has run
\* once for this cell with exactly these arguments.  A thread whose mask()
\* call is still to come is not running.
CallArgs(i) ==
    [bl |-> CellIndex, r |-> resolution, np |-> num_poly, slt |-> lat, sln |-> lon,
     c |-> CellIndex, nt |-> num_threads, p |-> i]

C12_ParameterHandoff ==
    pc \in {"mask", "wait"} =>
        \A i \in 0 .. (num_threads - 1) :
            IF pc = "wait" \/ i < ti
            THEN /\ mask_thread[i].l = CallArgs(i)
                 /\ mask_thread[i].st = "starting" => setBy[i] = <<>>
                 /\ mask_thread[i].st = "computing" =>
                        (mask_thread[i].w = CallArgs(i) /\ setBy[i] = <<>>)
                 /\ mask_thread[i].st = "idle" =>
                        (mask_thread[i].w = CallArgs(i) /\ setBy[i] = <<i>>)
            ELSE ~isRunning(mask_thread[i])

\* A thread that served the cell before is running for the cell in hand.
C12_Witness ==
    /\ pc = "wait"
    /\ CellIndex = EquatorCell + 1
    /\ EquatorCell \in DOMAIN blocks
    /\ mask_thread[0].st = "computing"
    /\ mask_thread[0].w = CallArgs(0)

\* C13: the ring loader never stores a vertex while num_poly is -1, never
\* puts vertices of two shapes into one ring, and hands the workers as many
\* rings as the shapes of two vertices or more declare parts.
RECURSIVE PartsDeclared(_)
PartsDeclared(i) ==
    IF i = 0 THEN 0
    ELSE PartsDeclared(i - 1)
           + (IF shapes[i].nVertices >= 2 THEN shapes[i].nParts ELSE 0)

C13_RingLoading ==
    /\ wild = {}
    /\ \A r \in 1 .. Len(poly) : \A a \in 1 .. Len(poly[r]) : \A b \in 1 .. Len(poly[r]) :
          poly[r][a][1] = poly[r][b][1]
    /\ pc = "loaded" => num_poly = PartsDeclared(Len(shapes))

\* C14: a step of main() in the cell (lat, lon) leaves the record of every
\* other cell and the block of every earlier cell as they are and writes no
\* record outside the directory; the block it writes lies at or after the
\* end of the file as it was, and a step of a cell without a shape file
\* leaves the length of the file as it is.
C14_FrameEffect ==
    [][/\ \A c \in DOMAIN dir : c # CellIndex => dir'[c] = dir[c]
       /\ \A c \in DOMAIN blocks : c # CellIndex => (c \in DOMAIN blocks' /\ blocks'[c] = blocks[c])
       /\ strays' = strays
       /\ (CellIndex \in DOMAIN blocks' /\ CellIndex \notin DOMAIN blocks)
             => LLeq(fileLen, blocks'[CellIndex].off)
       /\ (pc = "cell" /\ ~file_check(env, CellIndex)) => fileLen' = fileLen]_vars

\* C15: when the record of a compressed cell has been written, the code it
\* holds is block_address, block_address is the end of the file (where the
\* block is about to be appended), and it is at least the end of the
\* directory, so it is none of 0, 1, 2.
C15_CodeField ==
    pc = "writeblock" =>
        /\ dir[CellIndex] = mapbuf
        /\ mapbuf.code = block_address
        /\ block_address >= DirEnd
        /\ block_address >= 0 => Long(block_address) = fileLen
        /\ ~IsSentinel(dir[CellIndex])

\* C16: with main() and the workers scheduled fairly and no fatal error, the
\* barrier of every compressed cell is passed and the run ends; the cell in
\* hand only ever moves to the next cell of the walk (east in the band, then
\* the west end of the band to the north), so in ascending map index, and the
\* run ends when the last band is done.
C16_Termination ==
    /\ <>(pc = "done")
    /\ (pc = "wait") ~> (pc = "pack")
    /\ [](pc = "done" => (lat = LatEnd /\ lon = LonFirst))
    /\ [][<<lat, lon>>' # <<lat, lon>> =>
            /\ IF lon + 1 < LonEnd
               THEN lat' = lat /\ lon' = lon + 1
               ELSE lat' = lat + 1 /\ lon' = LonFirst
            /\ MapIndex(lat', lon') > MapIndex(lat, lon)
            /\ lat < LatEnd]_vars

\* A run with two compressed cells has ended.
C16_Witness ==
    /\ pc = "done"
    /\ lat = LatEnd
    /\ EquatorCell \in DOMAIN blocks
    /\ EquatorCell + 1 \in DOMAIN blocks

=============================================================================
